---- MODULE Spec2Model ----
(***************************************************************************)
(* A model of chdkptp.py: the Python client (chdkptp/device.py,            *)
(* chdkptp/lua.py, chdkptp/util.py) driving a CHDK camera through the      *)
(* embedded chdkptp Lua runtime.  The client is single threaded; the       *)
(* camera is the environment.  Python and Lua values are tagged records so *)
(* that values of different Python types can be told apart.                *)
(***************************************************************************)
EXTENDS Integers, Sequences, FiniteSets, TLC

VARIABLES
    pc,        \* position of the client: "idle", a label inside a call, or
               \* "done" when the call has finished and its result is at hand
    op,        \* the call in progress, or the last call made, with arguments
    devlog,    \* what that call has handed to the device so far, in order
    exc,       \* exception the last finished call raised ([kind |-> "none"])
    rval,      \* value the last finished call returned
    devMode,   \* camera mode: "record" or "play"
    pending,   \* mode requested by a running switch script, "none" if none
    i,         \* loop counter of the remote poll loop of switch_mode
    applyAt,   \* value of i when the camera changed mode, -1 if it did not
    hist,      \* summaries of the last two finished switch_mode calls
    running,   \* a script started without waiting is still running
    imgData,   \* img_data: the chunks stored by the capture handlers
    dngHdr,    \* dng_info.hdr: data of the DNG header chunk, <<>> if none yet
    capFailed, \* capture_get_data_pcall reported a failure
    waitExpired, \* wait_status_pcall ran into its timeout
    onCard,    \* the file uploaded by the test script is on the camera's card
    tmpFile,   \* temporary file of the call in progress: "none", "exists"
               \* or "removed"
    msgbuf,    \* the device's buffer of script messages, oldest first
    arrived,   \* number of messages that have arrived in the buffer so far
    seen,      \* every message get_messages has yielded so far, in order
    mark       \* value of arrived when the buffer was last found or made empty

vars == <<pc, op, devlog, exc, rval, devMode, pending, i, applyAt, hist,
          running, imgData, dngHdr, capFailed, waitExpired, onCard, tmpFile,
          msgbuf, arrived, seen, mark>>

\* the card, the local temporary file and the message buffer
envVars == <<onCard, tmpFile, msgbuf, arrived, seen, mark>>

modeVars == <<devMode, pending, i, applyAt, hist>>

shootVars == <<running, imgData, dngHdr, capFailed, waitExpired>>

callVars == <<op, devlog, exc, rval>>

----------------------------------------------------------------------------
(* Python / Lua values *)

None == [t |-> "none"]

Bool(b) == [t |-> "bool", b |-> b]

Num(n) == [t |-> "num", n |-> n]

Str(s) == [t |-> "str", s |-> s]

Bytes(s) == [t |-> "bytes", s |-> s]

\* a Lua error table as chdkptp's errlib throws it
ErrTable(etype, rc) ==
    [t |-> "tab", etype |-> etype, msg |-> "remote error", ptp_rc |-> rc,
     traceback |-> "stack traceback"]

NoExc == [kind |-> "none"]

Raise(kind) == [kind |-> kind]

\* one entry of devlog: the connection method used and what was handed to it
Dev(fn, arg) == [fn |-> fn, arg |-> arg]

----------------------------------------------------------------------------
(* chdkptp/lua.py *)

\* PTPError.__init__(err_table): reads err_table.msg, .ptp_rc, .traceback.
\* A Lua table answers any attribute; a Python str has none of them, so the
\* constructor itself fails with AttributeError.
PTPError(err_table) ==
    IF err_table.t = "tab"
    THEN [kind |-> "PTPError", ptp_code |-> err_table.ptp_rc,
          traceback |-> err_table.traceback]
    ELSE Raise("AttributeError")

\* what lupa hands back from a Lua call: one value, or a Python tuple when the
\* Lua function returned several values
One(v) == [tuple |-> FALSE, items |-> <<v>>]

Tuple(items) == [tuple |-> TRUE, items |-> items]

\* Python truth value
Truthy(v) ==
    CASE v.t = "none" -> FALSE
      [] v.t = "bool" -> v.b
      [] v.t = "num" -> v.n # 0
      [] OTHER -> TRUE

\* result of a Python function: the exception raised or the value returned
Ret(v) == [exc |-> NoExc, val |-> v]

Exc(e) == [exc |-> e, val |-> None]

\* LuaContext._raise_exception(errval); errval['etype'] needs a table
RaiseException(errval) ==
    IF errval.t \in {"str", "num", "bool"}
    THEN Raise("LuaError")
    ELSE IF errval.t # "tab"
    THEN Raise("TypeError")
    ELSE IF errval.etype = "ptp"
    THEN PTPError(errval)
    ELSE Raise("LuaError")

\* mutant: the error value is taken from where pcall puts it
ParseRvalSecond(rv) ==
    IF rv.tuple
    THEN IF ~Truthy(rv.items[1])
         THEN Exc(RaiseException(rv.items[2]))
         ELSE Ret(rv.items[2])
    ELSE Ret(rv.items[1])

\* LuaContext._parse_rval(rval): the error value is read from rval[2], the
\* third element, which a two-element tuple does not have
ParseRval(rv) ==
    IF rv.tuple
    THEN IF ~Truthy(rv.items[1])
            \/ (Len(rv.items) = 4 /\ rv.items[2] = None)
         THEN IF Len(rv.items) < 3
              THEN Exc(Raise("IndexError"))
              ELSE Exc(RaiseException(rv.items[3]))
         ELSE Ret(rv.items[2])
    ELSE Ret(rv.items[1])

\* what `return pcall(function() ... end)` gives for a remote script: the
\* script ran and returned n values, or an error was thrown
ScriptOutcomes == {"ret0", "ret1", "ret2", "err_str", "err_ptp", "err_lua"}

Thrown(out) == out \in {"err_str", "err_ptp", "err_lua"}

\* PTP status code of the thrown protocol error
PtpRc == 8194

ErrVal(out) ==
    CASE out = "err_str" -> Str("error message")
      [] out = "err_ptp" -> ErrTable("ptp", PtpRc)
      [] OTHER -> ErrTable("lua", 0)

RetVals(out) ==
    CASE out = "ret1" -> <<Num(1)>>
      [] out = "ret2" -> <<Num(1), Num(2)>>
      [] OTHER -> <<>>

\* pcall around con:execwait(...); return {rvals, msgs}
PcallExecwait(out) ==
    IF Thrown(out) THEN Tuple(<<Bool(FALSE), ErrVal(out)>>)
    ELSE Tuple(<<Bool(TRUE), [t |-> "rets", items |-> RetVals(out)]>>)

\* pcall around con:exec(...), which returns nothing
PcallExec(out) ==
    IF Thrown(out) THEN Tuple(<<Bool(FALSE), ErrVal(out)>>)
    ELSE One(Bool(TRUE))

\* LuaContext.pexecute on a script that talks to the camera
Pexecute(rv) == ParseRval(rv)

----------------------------------------------------------------------------
(* text: Python strings whose content the code inspects are sequences of
   one-character strings *)

RETURN == <<"r", "e", "t", "u", "r", "n">>

\* p in s
Contains(s, p) ==
    \E k \in 1..(Len(s) - Len(p) + 1) : SubSeq(s, k, k + Len(p) - 1) = p

\* s[:-1]
ButLast(s) == IF Len(s) = 0 THEN s ELSE SubSeq(s, 1, Len(s) - 1)

\* number of pieces a script text is built from
MaxToks == 3

Tokens == {RETURN, <<"x">>, <<";">>, <<"\n">>, <<" ">>}

RECURSIVE TextsOf(_)
TextsOf(n) ==
    IF n = 0 THEN {<<>>}
    ELSE LET shorter == TextsOf(n - 1) IN
         shorter \cup {t \o k : t \in shorter, k \in Tokens}

Sources == TextsOf(MaxToks)

----------------------------------------------------------------------------
(* ChdkDevice.lua_execute *)

\* mutant: no check of the source at all
SourceCheckNone(lua_code, do_return) == [raise |-> FALSE, code |-> lua_code]

\* if do_return and "return" not in lua_code: prepend "return " to a single
\* statement, refuse anything else
SourceCheck(lua_code, do_return) ==
    IF do_return /\ ~Contains(lua_code, RETURN)
    THEN IF ~Contains(ButLast(lua_code), <<";">>) /\ ~Contains(lua_code, <<"\n">>)
         THEN [raise |-> FALSE, code |-> RETURN \o <<" ">> \o lua_code]
         ELSE [raise |-> TRUE, code |-> lua_code]
    ELSE [raise |-> FALSE, code |-> lua_code]

\* the values lua_execute returns: the one value, or a tuple of them
ReturnValues(items) ==
    IF Len(items) = 1 THEN items[1] ELSE [t |-> "tuple", items |-> items]

\* lua_execute(lua_code, wait, do_return): the device interactions, then the
\* exception or value; pcall is what the pcall around con:exec (wait false)
\* or con:execwait hands back
LuaExecuteOn(lua_code, wait, do_return, pcall) ==
    IF ~wait
    THEN [log |-> <<Dev("exec", lua_code)>>,
          res |-> LET r == Pexecute(pcall) IN
                  IF r.exc.kind # "none" THEN r ELSE Ret(None)]
    ELSE LET chk == SourceCheck(lua_code, do_return) IN
         IF chk.raise
         THEN [log |-> <<>>, res |-> Exc(Raise("ValueError"))]
         ELSE [log |-> <<Dev("execwait", chk.code)>>,
               res |-> LET r == Pexecute(pcall) IN
                       IF r.exc.kind # "none" THEN r
                       ELSE IF ~do_return THEN Ret(None)
                       ELSE Ret(ReturnValues(r.val.items))]

LuaExecute(lua_code, wait, do_return, out) ==
    LuaExecuteOn(lua_code, wait, do_return,
                 IF wait THEN PcallExecwait(out) ELSE PcallExec(out))

LuaExecuteCall(lua_code, wait, do_return, out) ==
    /\ pc = "idle"
    /\ op' = [name |-> "lua_execute", code |-> lua_code, wait |-> wait,
              do_return |-> do_return, out |-> out]
    /\ LET r == LuaExecute(lua_code, wait, do_return, out) IN
       /\ devlog' = r.log
       /\ exc' = r.res.exc
       /\ rval' = r.res.val
       /\ running' = (running \/ (~wait /\ r.res.exc.kind = "none"))
    /\ pc' = "done"
    /\ UNCHANGED <<envVars, modeVars, imgData, dngHdr, capFailed, waitExpired>>

\* shapes of what pcall(con.is_connected, con) can hand back
CallOutcomes ==
    {One(Bool(TRUE)),
     Tuple(<<Bool(TRUE), Bool(TRUE)>>),
     Tuple(<<Bool(TRUE), Bool(FALSE)>>),
     Tuple(<<Bool(FALSE), Str("error message")>>),
     Tuple(<<Bool(FALSE), ErrTable("ptp", PtpRc)>>),
     Tuple(<<Bool(FALSE), ErrTable("lua", 0)>>),
     Tuple(<<Bool(TRUE), None, ErrTable("ptp", PtpRc), None>>),
     Tuple(<<Bool(TRUE), None, Str("error message"), None>>)}

\* the property is_connected: self._lua.call("con:is_connected")
IsConnectedCall(rv) ==
    /\ pc = "idle"
    /\ op' = [name |-> "is_connected", out |-> rv]
    /\ devlog' = <<Dev("is_connected", <<>>)>>
    /\ LET r == ParseRval(rv) IN
       /\ exc' = r.exc
       /\ rval' = r.val
    /\ pc' = "done"
    /\ UNCHANGED <<envVars, modeVars, shootVars>>

----------------------------------------------------------------------------
(* shoot arguments: DISTANCE_RE, _validate_shoot_args, _parse_shoot_args *)

\* a keyword argument that was not passed
Absent == [t |-> "absent"]

\* kwargs.get(k, d)
Get(kw, k, d) == IF kw[k].t = "absent" THEN d ELSE kw[k]

\* k in kwargs
Has(kw, k) == kw[k].t # "absent"

\* isinstance(v, Number); bool is a subclass of int
IsNumber(v) == v.t \in {"num", "bool"}

Digits == {"0", "1", "2", "3", "4", "5", "6", "7", "8", "9"}

DigitVal(c) ==
    CASE c = "0" -> 0 [] c = "1" -> 1 [] c = "2" -> 2 [] c = "3" -> 3
      [] c = "4" -> 4 [] c = "5" -> 5 [] c = "6" -> 6 [] c = "7" -> 7
      [] c = "8" -> 8 [] c = "9" -> 9

\* length of the longest run of digits of s that starts at position k
RECURSIVE DigitRun(_, _)
DigitRun(s, k) ==
    IF k <= Len(s) /\ s[k] \in Digits THEN 1 + DigitRun(s, k + 1) ELSE 0

\* the alternation (mm|cm|m|ft|in), tried in this order at position k
UnitAt(s, k) ==
    LET two == IF k + 1 <= Len(s) THEN SubSeq(s, k, k + 1) ELSE <<>>
        one == IF k <= Len(s) THEN s[k] ELSE ""
    IN  CASE two = <<"m", "m">> -> "mm"
          [] two = <<"c", "m">> -> "cm"
          [] one = "m" -> "m"
          [] two = <<"f", "t">> -> "ft"
          [] two = <<"i", "n">> -> "in"
          [] OTHER -> "none"

\* DISTANCE_RE.match(s) for '(\d+(?:.\d+)?)(mm|cm|m|ft|in)': a match at the
\* start of s; the '.' is unescaped and stands for any character but newline;
\* the optional group is tried first, then left out
DistanceMatch(s) ==
    LET p == DigitRun(s, 1)
        q == IF p + 1 <= Len(s) /\ s[p + 1] # "\n"
             THEN DigitRun(s, p + 2) ELSE 0
        withGroup == IF q > 0 THEN UnitAt(s, p + q + 2) ELSE "none"
        without == UnitAt(s, p + 1)
    IN  IF p = 0 THEN [ok |-> FALSE]
        ELSE IF withGroup # "none"
        THEN [ok |-> TRUE, value |-> SubSeq(s, 1, p + q + 1), unit |-> withGroup]
        ELSE IF without # "none"
        THEN [ok |-> TRUE, value |-> SubSeq(s, 1, p), unit |-> without]
        ELSE [ok |-> FALSE]

RECURSIVE Pow10(_)
Pow10(n) == IF n = 0 THEN 1 ELSE 10 * Pow10(n - 1)

\* the number a run of digits denotes
RECURSIVE DigitsVal(_)
DigitsVal(d) ==
    IF Len(d) = 0 THEN 0
    ELSE 10 * DigitsVal(SubSeq(d, 1, Len(d) - 1)) + DigitVal(d[Len(d)])

\* float(value) for a text made of digits with at most one other character
\* between them, as DistanceMatch captures it: num / den, or ValueError
Float(value) ==
    LET p == DigitRun(value, 1)
        int == DigitsVal(SubSeq(value, 1, p))
        rest == SubSeq(value, p + 2, Len(value))
    IN  IF p = Len(value) THEN [ok |-> TRUE, num |-> int, den |-> 1]
        ELSE IF value[p + 1] = "."
        THEN [ok |-> TRUE,
              num |-> int * Pow10(Len(rest)) + DigitsVal(rest),
              den |-> Pow10(Len(rest))]
        ELSE IF value[p + 1] \in {"e", "E"}
        THEN [ok |-> TRUE, num |-> int * Pow10(DigitsVal(rest)), den |-> 1]
        ELSE [ok |-> FALSE]

\* DISTANCE_FACTORS, in tenths of a millimetre
DistanceFactor10(unit) ==
    CASE unit = "mm" -> 10
      [] unit = "cm" -> 1000
      [] unit = "m" -> 10000
      [] unit = "ft" -> 3048
      [] unit = "in" -> 254

\* round(num / den) for num, den > 0: halves go away from zero
Round(num, den) == (2 * num + den) \div (2 * den)

ExposureArgs == <<"shutter_speed", "real_iso", "market_iso", "aperture", "isomode">>

\* mutant: market_iso is left out of the count
IsoArgsWithoutMarket == {"real_iso", "isomode"}

\* the arguments of which only one can be set
IsoArgs == {"real_iso", "market_iso", "isomode"}

\* v in (True, False, None), by ==: 1 == True and 0 == False
InTrueFalseNone(v) ==
    v.t \in {"none", "bool"} \/ (v.t = "num" /\ v.n \in {0, 1})

\* _validate_shoot_args(**kw): the exception it raises, NoExc if none
ValidateShootArgs(kw) ==
    LET d == Get(kw, "distance", None) IN
    IF \E k \in DOMAIN ExposureArgs :
          LET v == Get(kw, ExposureArgs[k], None) IN v # None /\ ~IsNumber(v)
    THEN Raise("ValueError")
    ELSE IF Cardinality({x \in IsoArgs : Get(kw, x, None) # None}) > 1
    THEN Raise("ValueError")
    ELSE IF ~InTrueFalseNone(Get(kw, "nd_filter", None))
    THEN Raise("ValueError")
    ELSE IF Has(kw, "distance") /\ ~IsNumber(d) /\ d.t # "str"
    THEN Raise("TypeError")
    ELSE IF Has(kw, "distance") /\ ~IsNumber(d) /\ ~DistanceMatch(d.s).ok
    THEN Raise("ValueError")
    ELSE IF /\ ~Truthy(Get(kw, "wait", Bool(TRUE)))
            /\ \E x \in {"stream", "download_after", "remove_after"} :
                  Truthy(Get(kw, x, Bool(FALSE)))
    THEN Raise("ValueError")
    ELSE IF /\ ~Truthy(Get(kw, "stream", Bool(TRUE)))
            /\ Truthy(Get(kw, "dng", Bool(FALSE)))
            /\ \/ Truthy(Get(kw, "download_after", Bool(FALSE)))
               \/ Truthy(Get(kw, "remove_after", Bool(FALSE)))
    THEN Raise("NotImplementedError")
    ELSE NoExc

\* the keyword arguments of the call self._validate_shoot_args()
NoKwargs ==
    [k \in {"shutter_speed", "real_iso", "market_iso", "aperture", "isomode",
            "nd_filter", "distance", "dng", "raw", "wait", "download_after",
            "remove_after", "stream"} |-> Absent]

\* options[k] = v when cond
Opt(cond, k, v) == IF cond THEN k :> v ELSE <<>>

\* the value _parse_shoot_args stores under 'sd', or the exception
ParseDistance(d) ==
    IF IsNumber(d) THEN Ret(Num(IF d.t = "bool" THEN (IF d.b THEN 1 ELSE 0) ELSE d.n))
    ELSE IF d.t # "str" THEN Exc(Raise("TypeError"))
    ELSE LET m == DistanceMatch(d.s) IN
         IF ~m.ok THEN Exc(Raise("AttributeError"))
         ELSE LET f == Float(m.value) IN
              IF ~f.ok THEN Exc(Raise("ValueError"))
              ELSE Ret(Num(Round(DistanceFactor10(m.unit) * f.num, 10 * f.den)))

\* int(v) as _parse_shoot_args applies it to isomode
IntOf(v) ==
    IF v.t = "num" THEN Ret(v)
    ELSE IF v.t = "bool" THEN Ret(Num(IF v.b THEN 1 ELSE 0))
    ELSE IF v.t = "str" THEN Exc(Raise("ValueError"))
    ELSE Exc(Raise("TypeError"))

\* mutant: raw is looked at before dng
FformatRawFirst(dng, raw) == IF raw THEN 4 ELSE IF dng THEN 6 ELSE 1

\* options['fformat'] of a streaming capture: 6 if dng, 4 elif raw, else 1
Fformat(dng, raw) == IF dng THEN 6 ELSE IF raw THEN 4 ELSE 1

\* _parse_shoot_args(**kw): the options record, or the exception
ParseShootArgs(kw) ==
    LET iso == Get(kw, "isomode", None)
        isoInt == IntOf(iso)
        d == Get(kw, "distance", None)
        sd == ParseDistance(d)
        dng == Truthy(Get(kw, "dng", Bool(FALSE)))
        raw == Truthy(Get(kw, "raw", Bool(FALSE)))
        stream == Truthy(Get(kw, "stream", Bool(TRUE)))
    IN  IF iso # None /\ isoInt.exc.kind # "none" THEN Exc(isoInt.exc)
        ELSE IF d # None /\ sd.exc.kind # "none" THEN Exc(sd.exc)
        ELSE Ret(
            Opt(Get(kw, "aperture", None) # None, "av", Get(kw, "aperture", None))
            @@ Opt(Get(kw, "real_iso", None) # None, "sv", Get(kw, "real_iso", None))
            @@ Opt(Get(kw, "market_iso", None) # None, "svm", Get(kw, "market_iso", None))
            @@ Opt(iso # None, "isomode", isoInt.val)
            @@ Opt(Get(kw, "shutter_speed", None) # None, "tv", Get(kw, "shutter_speed", None))
            @@ Opt(Truthy(Get(kw, "nd_filter", None)), "nd",
                   Num(IF Truthy(Get(kw, "nd_filter", None)) THEN 1 ELSE 2))
            @@ Opt(d # None, "sd", sd.val)
            @@ Opt(dng, "dng", Num(1))
            @@ Opt(dng \/ raw, "raw", Num(1))
            @@ Opt(stream, "fformat", Num(Fformat(dng, raw)))
            @@ Opt(~stream, "info", Bool(TRUE)))

----------------------------------------------------------------------------
(* chdkptp/util.py and the file operations of ChdkDevice *)

\* str.lower() on one character of the path alphabet
LowerChar(c) ==
    CASE c = "A" -> "a" [] c = "C" -> "c" [] c = "D" -> "d" [] c = "I" -> "i"
      [] c = "M" -> "m" [] OTHER -> c

Lower(s) == [k \in DOMAIN s |-> LowerChar(s[k])]

\* s.startswith(p)
StartsWith(s, p) == Len(s) >= Len(p) /\ SubSeq(s, 1, Len(p)) = p

\* s.endswith(p)
EndsWith(s, p) ==
    Len(s) >= Len(p) /\ SubSeq(s, Len(s) - Len(p) + 1, Len(s)) = p

\* os.path.join(a, b): an absolute b replaces a
OsPathJoin(a, b) ==
    IF StartsWith(b, <<"/">>) THEN b
    ELSE IF a = <<>> \/ EndsWith(a, <<"/">>) THEN a \o b
    ELSE a \o <<"/">> \o b

\* mutant: the prefix is compared without lower()
ToCamerapathCaseSensitive(path) ==
    IF ~StartsWith(path, <<"a", "/">>) THEN OsPathJoin(<<"A">>, path) ELSE path

\* util.to_camerapath(path)
ToCamerapath(path) ==
    IF ~StartsWith(Lower(path), <<"a", "/">>)
    THEN OsPathJoin(<<"A">>, path)
    ELSE path

\* longest remote path the caller passes
MaxPath == 3

PathChars == {"A", "a", "/", "f"}

RECURSIVE PathsOf(_)
PathsOf(n) ==
    IF n = 0 THEN {<<>>}
    ELSE LET shorter == PathsOf(n - 1) IN
         shorter \cup {q \o <<c>> : q \in shorter, c \in PathChars}

Paths == PathsOf(MaxPath)

\* several paths passed in one call
PathLists == {<<q>> : q \in Paths} \cup {<<q, <<"f">>>> : q \in Paths}

\* a local path: whether os.path.isdir holds of it, and its basename
LocalPaths ==
    {[isdir |-> FALSE, base |-> <<"t">>], [isdir |-> TRUE, base |-> <<"d">>]}

\* basename of the file the test script uploads, and where it lands on the
\* card when uploaded to 'A/'
TestBase == <<"t">>

TestFile == <<"A", "/">> \o TestBase

\* default of list_files: remote_path='A/DCIM'
DcimPath == <<"A", "/", "D", "C", "I", "M">>

\* the card's file system does not tell upper from lower case
SameFile(p, q) == Lower(p) = Lower(q)

\* the temporary file of download_file after the call: none is made when a
\* local path is given; os.unlink is reached only if con:download worked
TmpAfterDownload(hasLocal, out) ==
    IF hasLocal THEN "none" ELSE IF out = "thrown" THEN "exists" ELSE "removed"

\* what a pcall'ed connection method hands back: it worked, or it threw
FileOutcomes == {"ok", "thrown"}

PcallFile(out, v) ==
    IF out = "thrown" THEN Tuple(<<Bool(FALSE), ErrTable("ptp", PtpRc)>>)
    ELSE Tuple(<<Bool(TRUE), v>>)

\* one Dev entry per path, in order
DevEach(fn, paths) == [k \in DOMAIN paths |-> Dev(fn, paths[k])]

\* mutant: a directory is not told from a file
LocalIsDirNever(local) == FALSE

\* os.path.isdir(local_path)
LocalIsDir(local) == local.isdir

\* mutant: the remote path is looked up whatever it ends with
UploadChecksAlways(rp, skip_checks) == ~skip_checks

\* if not skip_checks: if remote_path.endswith("/")
UploadChecks(rp, skip_checks) == ~skip_checks /\ EndsWith(rp, <<"/">>)

\* upload_file(local_path, remote_path, skip_checks); stat tells what
\* con:stat finds at the remote path: "dir", "file" or "thrown"
UploadFile(local, remote, skip_checks, stat, out) ==
    LET rp == ToCamerapath(remote)
        check == UploadChecks(rp, skip_checks)
        st == ParseRval(IF stat = "thrown"
                        THEN Tuple(<<Bool(FALSE), ErrTable("lua", 0)>>)
                        ELSE Tuple(<<Bool(TRUE), Bool(stat = "dir")>>))
        target == IF check THEN OsPathJoin(rp, local.base) ELSE rp
        up == ParseRval(PcallFile(out, None))
    IN  IF LocalIsDir(local) THEN [log |-> <<>>, res |-> Exc(Raise("ValueError"))]
        ELSE IF check /\ st.exc.kind \notin {"none", "LuaError"}
        THEN [log |-> <<Dev("stat", rp)>>, res |-> Exc(st.exc)]
        ELSE IF check /\ (st.exc.kind = "LuaError" \/ ~Truthy(st.val))
        THEN [log |-> <<Dev("stat", rp)>>, res |-> Exc(Raise("ValueError"))]
        ELSE [log |-> (IF check THEN <<Dev("stat", rp)>> ELSE <<>>)
                      \o <<Dev("upload", target)>>,
              res |-> IF up.exc.kind # "none" THEN up ELSE Ret(None)]

\* batch_upload(local_paths, remote_path)
BatchUpload(remote, out) ==
    [log |-> <<Dev("mupload", ToCamerapath(remote))>>,
     res |-> LET r == ParseRval(PcallFile(out, None)) IN
             IF r.exc.kind # "none" THEN r ELSE Ret(None)]

\* download_file(remote_path, local_path): the bytes if no local path is given
DownloadFile(remote, hasLocal, out) ==
    [log |-> <<Dev("download", ToCamerapath(remote))>>,
     res |-> LET r == ParseRval(PcallFile(out, None)) IN
             IF r.exc.kind # "none" THEN r
             ELSE IF hasLocal THEN Ret(None)
             ELSE Ret(Bytes(<<"file">>))]

\* batch_download(remote_paths, local_path, overwrite)
BatchDownload(remotes, out) ==
    [log |-> DevEach("mdownload", [k \in DOMAIN remotes |-> ToCamerapath(remotes[k])]),
     res |-> LET r == ParseRval(PcallFile(out, None)) IN
             IF r.exc.kind # "none" THEN r ELSE Ret(None)]

\* mutant: delete_files normalizes its paths like the other operations
DeleteFilesNormalized(remotes, out) ==
    [log |-> DevEach("mdelete", [k \in DOMAIN remotes |-> ToCamerapath(remotes[k])]),
     res |-> IF out = "thrown" THEN Exc(Raise("LuaError")) ELSE Ret(None)]

\* delete_files(*remote_paths): self._con.mdelete is called directly, with
\* the paths as given; an error it throws arrives as lupa's LuaError
DeleteFiles(remotes, out) ==
    [log |-> DevEach("mdelete", remotes),
     res |-> IF out = "thrown" THEN Exc(Raise("LuaError")) ELSE Ret(None)]

\* names con:listdir reports
Listings == {<<>>, <<<<"f">>>>, <<<<"f">>, <<"t">>>>}

\* list_files(remote_path, detailed); tuple(a, b) is a TypeError
ListFiles(remote, detailed, names, out) ==
    LET rp == ToCamerapath(remote)
        r == ParseRval(PcallFile(out, None))
    IN  [log |-> <<Dev("listdir", rp)>>,
         res |-> IF r.exc.kind # "none" THEN r
                 ELSE IF detailed /\ names # <<>> THEN Exc(Raise("TypeError"))
                 ELSE Ret([t |-> "list",
                           items |-> [k \in DOMAIN names |-> OsPathJoin(rp, names[k])]])]

\* mkdir(remote_path)
Mkdir(remote, out) ==
    [log |-> <<Dev("mkdir_m", ToCamerapath(remote))>>,
     res |-> LET r == ParseRval(PcallFile(out, None)) IN
             IF r.exc.kind # "none" THEN r ELSE Ret(None)]

\* a file operation as one blocking call
FileCall(o, r) ==
    /\ op' = o
    /\ devlog' = r.log
    /\ exc' = r.res.exc
    /\ rval' = r.res.val
    /\ pc' = "done"
    /\ UNCHANGED <<modeVars, shootVars, msgbuf, arrived, seen, mark>>

\* the device call fn reached the device with path p and did not fail
Carried(r, fn, p) ==
    /\ r.res.exc.kind = "none"
    /\ \E k \in DOMAIN r.log : r.log[k].fn = fn /\ SameFile(r.log[k].arg, p)

\* what con:listdir finds in the directory: the other files there, and the
\* test file if it is on the card and the directory is the one it is in
Found(remote, others) ==
    others \o (IF onCard /\ SameFile(ToCamerapath(remote), <<"A", "/">>)
               THEN <<TestBase>> ELSE <<>>)

UploadFileCall(local, remote, skip_checks, stat, out) ==
    /\ pc = "idle"
    /\ FileCall([name |-> "upload_file", local |-> local, remote |-> <<remote>>,
              skip_checks |-> skip_checks, stat |-> stat, out |-> out],
             UploadFile(local, remote, skip_checks, stat, out))
    /\ onCard' = (onCard \/ Carried(UploadFile(local, remote, skip_checks, stat, out),
                                    "upload", TestFile))
    /\ UNCHANGED tmpFile

BatchUploadCall(remote, out) ==
    /\ pc = "idle"
    /\ FileCall([name |-> "batch_upload", remote |-> <<remote>>, out |-> out],
             BatchUpload(remote, out))
    /\ UNCHANGED <<onCard, tmpFile>>

DownloadFileCall(remote, hasLocal, out) ==
    /\ pc = "idle"
    /\ FileCall([name |-> "download_file", remote |-> <<remote>>,
              hasLocal |-> hasLocal, out |-> out],
             DownloadFile(remote, hasLocal, out))
    /\ tmpFile' = TmpAfterDownload(hasLocal, out)
    /\ UNCHANGED onCard

BatchDownloadCall(remotes, out) ==
    /\ pc = "idle"
    /\ FileCall([name |-> "batch_download", remote |-> remotes, out |-> out],
             BatchDownload(remotes, out))
    /\ UNCHANGED <<onCard, tmpFile>>

DeleteFilesCall(remotes, out) ==
    /\ pc = "idle"
    /\ FileCall([name |-> "delete_files", remote |-> remotes, out |-> out],
             DeleteFiles(remotes, out))
    /\ onCard' = (onCard /\ ~Carried(DeleteFiles(remotes, out), "mdelete", TestFile))
    /\ UNCHANGED tmpFile

ListFilesCall(remote, detailed, names, out) ==
    /\ pc = "idle"
    /\ FileCall([name |-> "list_files", remote |-> <<remote>>,
              detailed |-> detailed, names |-> names, out |-> out],
             ListFiles(remote, detailed, Found(remote, names), out))
    /\ UNCHANGED <<onCard, tmpFile>>

MkdirCall(remote, out) ==
    /\ pc = "idle"
    /\ FileCall([name |-> "mkdir", remote |-> <<remote>>, out |-> out],
             Mkdir(remote, out))
    /\ UNCHANGED <<onCard, tmpFile>>

\* the file name used by the documentation and the test script
FooJpg == <<"f", "o", "o", ".", "j", "p", "g">>

\* paths handed to to_camerapath directly
CamerapathArgs == Paths \cup {FooJpg, <<"A", "/">> \o FooJpg}

\* util.to_camerapath(path) called on its own
ToCamerapathCall ==
    /\ pc = "idle"
    /\ \E path \in CamerapathArgs :
       /\ op' = [name |-> "to_camerapath", path |-> path]
       /\ rval' = Str(ToCamerapath(path))
    /\ devlog' = <<>>
    /\ exc' = NoExc
    /\ pc' = "done"
    /\ UNCHANGED <<envVars, modeVars, shootVars>>

----------------------------------------------------------------------------
(* ChdkDevice.shoot, _shoot_nonstreaming, _shoot_streaming *)

\* values the caller passes to shoot for each keyword argument
ShootKwargValues ==
    [shutter_speed : {Absent, Str("fast")},
     real_iso : {Absent, Num(100)},
     market_iso : {Absent},
     aperture : {Absent},
     isomode : {Absent, Num(400)},
     nd_filter : {Absent, Str("in")},
     distance : {Absent, Str(<<"5", "c", "m">>), Str(<<"f", "a", "r">>)},
     dng : {Absent, Bool(TRUE)},
     raw : {Absent},
     wait : {Absent, Bool(FALSE)},
     download_after : {Absent, Bool(TRUE)},
     remove_after : {Absent, Bool(TRUE)},
     stream : {Absent, Bool(TRUE), Bool(FALSE)}]

\* most keyword arguments given in one call
MaxGiven == 3

\* keyword arguments of one call of shoot
ShootKwargs ==
    {kw \in ShootKwargValues :
        Cardinality({k \in DOMAIN kw : kw[k] # Absent}) <= MaxGiven}

\* util.serialize(options): the options record as Lua source text
Serialize(options) == ToString(options)

DigitChar(d) ==
    CASE d = 0 -> "0" [] d = 1 -> "1" [] d = 2 -> "2" [] d = 3 -> "3"
      [] d = 4 -> "4" [] d = 5 -> "5" [] d = 6 -> "6" [] d = 7 -> "7"
      [] d = 8 -> "8" [] d = 9 -> "9"

RECURSIVE NumChars(_)
NumChars(n) ==
    IF n < 10 THEN <<DigitChar(n)>>
    ELSE Append(NumChars(n \div 10), DigitChar(n % 10))

\* '{:04}'.format(n)
RECURSIVE PadZero(_, _)
PadZero(cs, width) == IF Len(cs) >= width THEN cs ELSE PadZero(<<"0">> \o cs, width)

\* mutant: the exposure count is not padded
ImgPathUnpadded(dir, exp) ==
    dir \o <<"/", "I", "M", "G", "_">> \o NumChars(exp) \o <<".", "J", "P", "G">>

\* "{0}/IMG_{1:04}.JPG".format(dir, exp)
ImgPath(dir, exp) ==
    dir \o <<"/", "I", "M", "G", "_">> \o PadZero(NumChars(exp), 4)
        \o <<".", "J", "P", "G">>

\* directory and exposure counts the camera reports after a shot
DcimDir == <<"A", "/", "D">>

ExpCounts == {7, 1234}

\* what the remote scripts of a capture can do: return, or throw
ShootOutcomes == {"ret1", "err_ptp"}

\* what rlib_shoot hands back: the info table, false with a message, or a
\* thrown error
ShotOutcomes == {"info", "failed", "thrown"}

PcallShot(shot, exp) ==
    CASE shot = "thrown" -> Tuple(<<Bool(FALSE), ErrTable("ptp", PtpRc)>>)
      [] shot = "failed" ->
           Tuple(<<Bool(TRUE), [t |-> "rets", items |-> <<Bool(FALSE), Str("msg")>>]>>)
      [] OTHER ->
           Tuple(<<Bool(TRUE),
                   [t |-> "rets",
                    items |-> <<[t |-> "dict", dir |-> DcimDir, exp |-> exp]>>]>>)

\* how the camera behaves during one non-streaming shot
ShotEnvs ==
    [shot : ShotOutcomes, exp : ExpCounts, dl : FileOutcomes, rm : FileOutcomes]

\* _shoot_nonstreaming(options, wait, download, remove)
ShootNonStreaming(options, wait, download, remove, env) ==
    IF ~wait
    THEN LuaExecuteOn(<<"rlib_shoot(", options, ")">>, FALSE, TRUE,
                      PcallExec(IF env.shot = "thrown" THEN "err_ptp" ELSE "ret0"))
    ELSE LET r == LuaExecuteOn(RETURN \o <<" ", "rlib_shoot(", options, ")">>,
                               TRUE, TRUE, PcallShot(env.shot, env.exp))
             status == r.res.val
             path == ImgPath(status.dir, status.exp)
             dl == DownloadFile(path, FALSE, env.dl)
             rm == DeleteFiles(<<path>>, env.rm)
         IN  IF r.res.exc.kind # "none" THEN r
             ELSE IF status.t # "dict"
             THEN [log |-> r.log, res |-> Exc(Raise("TypeError"))]
             ELSE IF download /\ dl.res.exc.kind # "none"
             THEN [log |-> r.log \o dl.log, res |-> dl.res]
             ELSE IF remove /\ rm.res.exc.kind # "none"
             THEN [log |-> r.log \o (IF download THEN dl.log ELSE <<>>) \o rm.log,
                   res |-> rm.res]
             ELSE [log |-> r.log \o (IF download THEN dl.log ELSE <<>>)
                           \o (IF remove THEN rm.log ELSE <<>>),
                   res |-> IF download THEN dl.res ELSE Ret(None)]

\* the first two calls of _shoot_streaming: rs_init, awaited, then rs_shoot,
\* started without waiting
StreamStart(options, o1, o2) ==
    LET a == LuaExecute(RETURN \o <<" ", "rs_init(", options, ")">>, TRUE, TRUE, o1)
        b == LuaExecute(<<"rs_shoot(", options, ")">>, FALSE, TRUE, o2)
    IN  IF a.res.exc.kind # "none" THEN a
        ELSE [log |-> a.log \o b.log, res |-> b.res]

\* con:exec and con:execwait refuse to start a script while one is running
Busy(out) == IF running THEN "err_lua" ELSE out

\* mutant: validation is handed the caller's arguments
ShootValidationWithArgs(kw) == ValidateShootArgs(kw)

\* self._validate_shoot_args(): called without the keyword arguments
ShootValidation(kw) == ValidateShootArgs(NoKwargs)

\* shoot(**kw) as far as the choice between the two ways of capturing: the
\* exception raised before it, NoExc if none
ShootEntry(kw) ==
    LET v == ShootValidation(kw)
        p == ParseShootArgs(kw)
    IN  IF v.kind # "none" THEN v ELSE p.exc

IsStream(kw) == Truthy(Get(kw, "stream", Bool(TRUE)))

\* for every call: what shoot raises before capturing, and the options text
\* util.serialize(options) it would pass to the camera
ShootPlan ==
    [kw \in ShootKwargs |->
        [entry |-> ShootEntry(kw),
         options |-> Serialize(ParseShootArgs(kw).val)]]

\* shoot(**kw) with stream=False: _shoot_nonstreaming, a sequence of blocking
\* calls
ShootNonStreamingCall ==
    /\ pc = "idle"
    /\ \E kw \in ShootKwargs, env \in ShotEnvs :
       /\ ~IsStream(kw)
       /\ op' = [name |-> "shoot", kw |-> kw, env |-> env]
       /\ pc' = "done"
       /\ UNCHANGED <<modeVars, imgData, dngHdr, capFailed, waitExpired, onCard,
                      msgbuf, arrived, seen, mark>>
       /\ LET wait == Truthy(Get(kw, "wait", Bool(TRUE)))
              busyEnv == [env EXCEPT !.shot = IF running THEN "thrown" ELSE env.shot]
              ns == ShootNonStreaming(ShootPlan[kw].options, wait,
                                      Truthy(Get(kw, "download_after", Bool(FALSE))),
                                      Truthy(Get(kw, "remove_after", Bool(FALSE))),
                                      busyEnv)
          IN  IF ShootPlan[kw].entry.kind # "none"
              THEN /\ exc' = ShootPlan[kw].entry
                   /\ devlog' = <<>>
                   /\ rval' = None
                   /\ UNCHANGED <<running, tmpFile>>
              ELSE /\ exc' = ns.res.exc
                   /\ devlog' = ns.log
                   /\ rval' = ns.res.val
                   /\ tmpFile' = IF \E k \in DOMAIN ns.log : ns.log[k].fn = "download"
                                 THEN TmpAfterDownload(FALSE, env.dl)
                                 ELSE "none"
                   /\ running' = (running \/ (~wait /\ ns.res.exc.kind = "none"))

\* shoot(**kw) with stream left out or true: _shoot_streaming up to the
\* point where it waits for the captured data
ShootStreamingCall ==
    /\ pc = "idle"
    /\ \E kw \in ShootKwargs, o1 \in ShootOutcomes, o2 \in ShootOutcomes :
       /\ IsStream(kw)
       /\ op' = [name |-> "shoot", kw |-> kw]
       /\ rval' = None
       /\ UNCHANGED <<envVars, modeVars, imgData, dngHdr, capFailed, waitExpired>>
       /\ LET st == StreamStart(ShootPlan[kw].options, Busy(o1), Busy(o2))
          IN  IF ShootPlan[kw].entry.kind # "none"
              THEN /\ exc' = ShootPlan[kw].entry
                   /\ devlog' = <<>>
                   /\ pc' = "done"
                   /\ UNCHANGED running
              ELSE /\ exc' = st.res.exc
                   /\ devlog' = st.log
                   /\ pc' = IF st.res.exc.kind = "none" THEN "capture" ELSE "done"
                   /\ running' = (running \/ st.res.exc.kind = "none")

IsDng == Truthy(Get(op.kw, "dng", Bool(FALSE)))

\* chunks one capture delivers to a handler
MaxChunks == 2

\* number of times the raw handler has stored a chunk
RawCount == Cardinality({k \in DOMAIN imgData : imgData[k].kind = "raw"})

Chunk(kind, n) == [kind |-> kind, data |-> <<kind, DigitChar(n)>>]

\* rc_handler_store(img_data) for jpg: the next chunk is appended
JpgChunk ==
    /\ pc = "capture" /\ ~IsDng
    /\ Len(imgData) < MaxChunks
    /\ imgData' = Append(imgData, Chunk("jpg", Len(imgData) + 1))
    /\ UNCHANGED <<envVars, pc, callVars, modeVars, running, dngHdr, capFailed, waitExpired>>

\* the dng_hdr handler: dng_info.hdr = chunk.data
DngHeader ==
    /\ pc = "capture" /\ IsDng
    /\ dngHdr = <<>>
    /\ dngHdr' = <<"hdr">>
    /\ UNCHANGED <<envVars, pc, callVars, modeVars, running, imgData, capFailed, waitExpired>>

\* mutant: the header is stored with the first raw chunk only
RawStoredHeaderOnce(hdr, n) ==
    (IF n = 1 THEN <<[kind |-> "hdr", data |-> hdr]>> ELSE <<>>)
        \o <<Chunk("thumb", n), Chunk("raw", n)>>

\* what the raw handler inserts into img_data for raw chunk n when
\* rc_process_dng succeeds: {data=dng_info.hdr}, {data=dng_info.thumb}, raw
RawStored(hdr, n) ==
    <<[kind |-> "hdr", data |-> hdr], Chunk("thumb", n), Chunk("raw", n)>>

\* the raw handler, called for a raw chunk after the header has arrived;
\* how: the chunk is fetched and processed ("ok"), capture_get_chunk_pcall
\* fails ("nochunk"), or rc_process_dng fails ("nodng")
DngRaw(how) ==
    /\ pc = "capture" /\ IsDng
    /\ dngHdr # <<>>
    /\ RawCount < MaxChunks
    /\ imgData' = CASE how = "ok" -> imgData \o RawStored(dngHdr, RawCount + 1)
                     [] how = "nodng" -> Append(imgData, [kind |-> "hdr", data |-> dngHdr])
                     [] OTHER -> imgData
    /\ capFailed' = (how # "ok")
    /\ pc' = IF how = "ok" THEN "capture" ELSE "wait"
    /\ UNCHANGED <<envVars, callVars, modeVars, running, dngHdr, waitExpired>>

\* capture_get_data_pcall returns: every chunk has arrived (failed = FALSE),
\* or a chunk could not be fetched or did not arrive in time
CaptureEnd(failed) ==
    /\ pc = "capture"
    /\ capFailed' = failed
    /\ pc' = "wait"
    /\ UNCHANGED <<envVars, callVars, modeVars, running, imgData, dngHdr, waitExpired>>

\* the script started without waiting comes to its end on the camera
ScriptEnd ==
    /\ running
    /\ running' = FALSE
    /\ UNCHANGED <<envVars, pc, callVars, modeVars, imgData, dngHdr, capFailed, waitExpired>>

\* timeout of the status wait, in milliseconds
StatusTimeout == 30000

\* mutant: the status wait has no timeout and returns only once the script
\* has ended
WaitStatusNoTimeout ==
    /\ pc = "wait"
    /\ ~running
    /\ waitExpired' = FALSE
    /\ pc' = "cleanup"
    /\ UNCHANGED <<envVars, callVars, modeVars, running, imgData, dngHdr, capFailed>>

\* wait_status_pcall(run=False, timeout=30000) returns: the script has ended,
\* or the timeout ran out first; the result is not looked at
WaitStatus ==
    /\ pc = "wait"
    /\ waitExpired' = running
    /\ pc' = "cleanup"
    /\ UNCHANGED <<envVars, callVars, modeVars, running, imgData, dngHdr, capFailed>>

\* mutant: the chunks are joined newest first
RECURSIVE AssembleNewestFirst(_)
AssembleNewestFirst(chunks) ==
    IF chunks = <<>> THEN <<>>
    ELSE AssembleNewestFirst(Tail(chunks)) \o chunks[1].data

\* the Lua function that joins the chunks: out_data .. c.data:string()
RECURSIVE Assemble(_)
Assemble(chunks) ==
    IF chunks = <<>> THEN <<>> ELSE chunks[1].data \o Assemble(Tail(chunks))

\* lua_execute('init_usb_capture(0)'), then the image bytes are returned
StreamFinish(out) ==
    /\ pc = "cleanup"
    /\ LET r == LuaExecute(<<"init_usb_capture(0)">>, TRUE, TRUE, Busy(out)) IN
       /\ devlog' = devlog \o r.log
       /\ exc' = r.res.exc
       /\ rval' = IF r.res.exc.kind = "none" THEN Bytes(Assemble(imgData)) ELSE None
    /\ pc' = "done"
    /\ UNCHANGED <<envVars, op, modeVars, shootVars>>

----------------------------------------------------------------------------
(* ChdkDevice.mode / ChdkDevice.switch_mode *)

Modes == {"record", "play"}

\* ceiling of the remote poll loop: `i < 300`
PollLimit == 300

\* the property `mode`: 'record' if is_record else 'play'
ModeOf(is_record) == IF is_record THEN "record" ELSE "play"

\* int(mode == 'record')
ModeNum(mode) == IF mode = "record" THEN 1 ELSE 0

\* (get_mode() and 1 or 0) on the camera
GetModeNum == IF devMode = "record" THEN 1 ELSE 0

\* mutant: the loop runs one iteration too many
LoopCondOffByOne(n, k) == GetModeNum # n /\ k <= PollLimit

\* while (get_mode() and 1 or 0) ~= %d and i < 300 do
LoopCond(n, k) == GetModeNum # n /\ k < PollLimit

\* mutant: the early return is missing
AlreadyInModeNever(mode) == FALSE

\* if self.mode == mode: return
AlreadyInMode(mode) == ModeOf(devMode = "record") = mode

\* mutant: the script reports success without the final check
SwitchStatusAlways(n) == TRUE

\* if (get_mode() and 1 or 0) ~= %d then return false, 'switch failed' end
\* return true, ""
SwitchStatus(n) == GetModeNum = n

\* what a finished switch_mode call did: the mode asked for, the camera mode
\* when it was called and when it finished, the number of remote switch calls
\* it issued and whether it returned normally
Summary(mode, atCall, atEnd, issued, ok) ==
    [mode |-> mode, atCall |-> atCall, atEnd |-> atEnd, issued |-> issued,
     ok |-> ok]

Push(h, s) == IF Len(h) < 2 THEN Append(h, s) ELSE <<h[2], s>>

\* switch_mode(mode) up to the start of the remote script
SwitchModeCall(m) ==
    /\ pc = "idle"
    /\ op' = [name |-> "switch_mode", mode |-> m, atCall |-> devMode]
    /\ i' = 0
    /\ applyAt' = -1
    /\ rval' = None
    /\ IF m \notin {"play", "record"}
       THEN /\ exc' = Raise("ValueError")
            /\ devlog' = <<>>
            /\ hist' = Push(hist, Summary(m, devMode, devMode, 0, FALSE))
            /\ pc' = "done"
            /\ UNCHANGED <<envVars, devMode, pending, shootVars>>
       ELSE IF AlreadyInMode(m)
       THEN /\ exc' = NoExc
            /\ devlog' = <<Dev("execwait", <<"return get_mode()">>)>>
            /\ hist' = Push(hist, Summary(m, devMode, devMode, 0, TRUE))
            /\ pc' = "done"
            /\ UNCHANGED <<envVars, devMode, pending, shootVars>>
       ELSE /\ exc' = NoExc
            /\ devlog' = <<Dev("execwait", <<"return get_mode()">>),
                           Dev("execwait", <<"switch_mode_usb", m>>)>>
            /\ pending' = m
            /\ pc' = "poll"
            /\ UNCHANGED <<envVars, devMode, hist, shootVars>>

\* one iteration of the remote loop: sleep(10); i = i + 1
PollSleep ==
    /\ pc = "poll"
    /\ LoopCond(ModeNum(op.mode), i)
    /\ i' = i + 1
    /\ UNCHANGED <<envVars, pc, op, devlog, exc, rval, devMode, pending, applyAt, hist,
                   shootVars>>

\* the loop ends, the script returns its status and switch_mode finishes
PollExit ==
    /\ pc = "poll"
    /\ ~LoopCond(ModeNum(op.mode), i)
    /\ pc' = "done"
    /\ pending' = "none"
    /\ rval' = None
    /\ LET status == SwitchStatus(ModeNum(op.mode)) IN
       /\ exc' = IF status THEN NoExc
                 ELSE PTPError(Str("Could not switch mode"))
       /\ hist' = Push(hist, Summary(op.mode, op.atCall, devMode, 1, status))
    /\ UNCHANGED <<envVars, op, devlog, devMode, i, applyAt, shootVars>>

\* the camera carries out the requested switch while the script sleeps
DeviceSwitch ==
    /\ pc = "poll"
    /\ pending # "none"
    /\ devMode' = pending
    /\ pending' = "none"
    /\ applyAt' = i
    /\ UNCHANGED <<envVars, pc, op, devlog, exc, rval, i, hist, shootVars>>

----------------------------------------------------------------------------
(* ChdkDevice.get_messages, send_message *)

\* most messages that arrive in the buffer
MaxMsgs == 3

MsgTypes == {"user", "return"}

\* a raw message in the device's buffer: its type, the script it is from and
\* its value, here the number of its arrival
RawMsg(type, n) ==
    [type |-> type, subtype |-> "integer", script_id |-> 1, value |-> Num(n)]

\* a running script writes a message
MsgArrive ==
    /\ arrived < MaxMsgs
    /\ \E type \in MsgTypes : msgbuf' = Append(msgbuf, RawMsg(type, arrived + 1))
    /\ arrived' = arrived + 1
    /\ UNCHANGED <<pc, callVars, modeVars, shootVars, onCard, tmpFile, seen, mark>>

\* con:read_msg(): the oldest message is taken out of the buffer; a message
\* of type 'none' is handed back when the buffer is empty
ConReadMsg(buf) ==
    IF buf = <<>> THEN [msg |-> [type |-> "none"], rest |-> <<>>]
    ELSE [msg |-> Head(buf), rest |-> Tail(buf)]

\* _parse_message(raw_msg) for a message that is not a table
ParseMessage(raw) ==
    [type |-> raw.type, script_id |-> raw.script_id, value |-> raw.value]

\* mutant: a return value ends the iteration as well
IsSentinelOrReturn(raw) == raw.type \in {"none", "return"}

\* if raw_msg.type == 'none'
IsSentinel(raw) == raw.type = "none"

\* get_messages(): the generator is created and its consumer starts to
\* iterate
GetMessagesCall ==
    /\ pc = "idle"
    /\ op' = [name |-> "get_messages", from |-> mark]
    /\ devlog' = <<>>
    /\ exc' = NoExc
    /\ rval' = [t |-> "list", items |-> <<>>]
    /\ pc' = "drain"
    /\ UNCHANGED <<envVars, modeVars, shootVars>>

\* one iteration of `while True`: read_msg, then StopIteration or yield
ReadMsg ==
    /\ pc = "drain"
    /\ LET r == ConReadMsg(msgbuf) IN
       /\ msgbuf' = r.rest
       /\ devlog' = Append(devlog, Dev("read_msg", <<>>))
       /\ IF IsSentinel(r.msg)
          THEN /\ pc' = "done"
               /\ mark' = arrived
               /\ UNCHANGED <<rval, seen>>
          ELSE /\ rval' = [rval EXCEPT !.items = Append(@, ParseMessage(r.msg))]
               /\ seen' = Append(seen, ParseMessage(r.msg))
               /\ UNCHANGED <<pc, mark>>
    /\ UNCHANGED <<op, exc, modeVars, shootVars, onCard, tmpFile, arrived>>

\* send_message(message, script_id)
SendMessage(message, script_id, out) ==
    [log |-> <<Dev("write_msg", IF Truthy(script_id) THEN <<message, script_id>>
                                ELSE <<message>>)>>,
     res |-> LET r == ParseRval(PcallFile(out, None)) IN
             IF r.exc.kind # "none" THEN r ELSE Ret(None)]

\* script ids the caller names; None when it names none
ScriptIds == {None, Num(0), Num(1), Num(2)}

SendMessageCall ==
    /\ pc = "idle"
    /\ \E script_id \in ScriptIds, out \in FileOutcomes :
       LET r == SendMessage("msg", script_id, out) IN
       /\ op' = [name |-> "send_message", script_id |-> script_id, out |-> out]
       /\ devlog' = r.log
       /\ exc' = r.res.exc
       /\ rval' = r.res.val
    /\ pc' = "done"
    /\ UNCHANGED <<envVars, modeVars, shootVars>>

----------------------------------------------------------------------------
(* ChdkDevice.kill_scripts, reconnect, reboot *)

\* mutant: kill_scripts returns without the status wait
KillAfterExecNoWait(first) == "done"

\* where kill_scripts goes after con:exec: on to con:wait_status unless the
\* call raised
KillAfterExec(first) == IF first.exc.kind # "none" THEN "done" ELSE "killwait"

\* kill_scripts(flush) up to the return of con:exec("", ..., clobber=True):
\* the empty script takes the place of whatever was running, and the
\* buffered messages are dropped if flush is set
KillScriptsCall ==
    /\ pc = "idle"
    /\ \E flush \in BOOLEAN, out \in FileOutcomes :
       LET first == ParseRval(PcallFile(out, None)) IN
       /\ op' = [name |-> "kill_scripts", flush |-> flush, out |-> out]
       /\ devlog' = <<Dev("exec", [code |-> <<>>, flush_cam_msgs |-> flush,
                                   flush_host_msgs |-> flush, clobber |-> TRUE])>>
       /\ exc' = first.exc
       /\ pc' = KillAfterExec(first)
       /\ running' = (running \/ out = "ok")
       /\ msgbuf' = IF out = "ok" /\ flush THEN <<>> ELSE msgbuf
       /\ mark' = IF out = "ok" /\ flush THEN arrived ELSE mark
    /\ rval' = None
    /\ UNCHANGED <<modeVars, imgData, dngHdr, capFailed, waitExpired, onCard,
                   tmpFile, arrived, seen>>

\* con:wait_status{run=false} hands back a status once the device reports
\* that no script is running
StatusReported == ~running

\* kill_scripts: con:wait_status returns, or throws
KillWait ==
    /\ pc = "killwait"
    /\ \E out \in FileOutcomes :
       /\ out = "ok" => StatusReported
       /\ devlog' = Append(devlog, Dev("wait_status", [run |-> FALSE]))
       /\ exc' = ParseRval(PcallFile(out, None)).exc
    /\ pc' = "done"
    /\ UNCHANGED <<op, rval, envVars, modeVars, shootVars>>

\* reconnect(wait)
Reconnect(wait, out) ==
    [log |-> <<Dev("reconnect", [wait |-> wait, strict |-> TRUE])>>,
     res |-> LET r == ParseRval(PcallFile(out, None)) IN
             IF r.exc.kind # "none" THEN r ELSE Ret(None)]

\* parameters of lua_execute
LuaExecuteParams == {"lua_code", "wait", "do_return", "remote_libs"}

\* Python binds the keyword arguments of a call to the parameters
BindKwargs(given, params) ==
    IF given \subseteq params THEN NoExc ELSE Raise("TypeError")

\* time reboot waits before reconnecting, in milliseconds
RebootWait == 3500

\* "sleep(1000); reboot('{0}')".format(bootfile)
RebootCode(bootfile) ==
    <<"sleep(1000)", ";", " ", "reboot('">>
        \o (IF bootfile = None THEN <<"None">>
            ELSE IF Truthy(bootfile) THEN ToCamerapath(bootfile.s) ELSE bootfile.s)
        \o <<"')">>

\* reboot(wait, bootfile): lua_execute is called with clobber=True
Reboot(wait, bootfile, out1, out2) ==
    LET bind == BindKwargs({"lua_code", "clobber"}, LuaExecuteParams)
        ex == LuaExecute(RebootCode(bootfile), TRUE, TRUE, out1)
        rc == Reconnect(wait, out2)
    IN  IF bind.kind # "none" THEN [log |-> <<>>, res |-> Exc(bind)]
        ELSE IF ex.res.exc.kind # "none" THEN ex
        ELSE [log |-> ex.log \o rc.log, res |-> rc.res]

\* boot files the caller names
Bootfiles == {None, Str(<<"f">>), Str(<<"A", "/", "f">>)}

RebootCall ==
    /\ pc = "idle"
    /\ \E bootfile \in Bootfiles, out1 \in ScriptOutcomes, out2 \in FileOutcomes :
       LET r == Reboot(RebootWait, bootfile, out1, out2) IN
       /\ op' = [name |-> "reboot", bootfile |-> bootfile, out |-> out1]
       /\ devlog' = r.log
       /\ exc' = r.res.exc
       /\ rval' = r.res.val
    /\ pc' = "done"
    /\ UNCHANGED <<envVars, modeVars, shootVars>>

----------------------------------------------------------------------------
(* _validate_shoot_args and _parse_shoot_args, called on their own *)

\* values of the keyword arguments the two functions are called with
ArgKwargValues ==
    [shutter_speed : {Absent, Num(96), Str("fast")},
     real_iso : {Absent, None, Num(100)},
     market_iso : {Absent, Num(200)},
     aperture : {Absent},
     isomode : {Absent, Num(400)},
     nd_filter : {Absent, None, Bool(TRUE), Bool(FALSE), Str("in")},
     distance : {Absent, Num(50), Str(<<"5", "c", "m">>)},
     dng : {Absent, Bool(TRUE)},
     raw : {Absent, Bool(TRUE)},
     wait : {Absent, Bool(TRUE), Bool(FALSE)},
     download_after : {Absent, Bool(TRUE)},
     remove_after : {Absent, Bool(TRUE)},
     stream : {Absent, Bool(TRUE), Bool(FALSE)}]

\* longest number part of a distance text
MaxDigits == 3

RECURSIVE NumberTextsOf(_)
NumberTextsOf(n) ==
    IF n = 0 THEN {<<>>}
    ELSE {Append(s, c) : s \in NumberTextsOf(n - 1), c \in {"2", "5", ".", "x"}}

\* what may follow the number part: the five units, nothing, and text that
\* is no unit or goes on after one
UnitTexts ==
    {<<"m", "m">>, <<"c", "m">>, <<"m">>, <<"f", "t">>, <<"i", "n">>, <<>>,
     <<"k", "m">>, <<"m", "x">>, <<"c", "m", "2">>, <<" ", "m", "m">>}

\* distance texts: a number part followed by a unit part
DistanceTexts ==
    {s \o u : s \in UNION {NumberTextsOf(n) : n \in 1..MaxDigits}, u \in UnitTexts}

\* keyword arguments of one call: a few arguments of any kind, or a distance
\* text alone
ArgKwargs ==
    {kw \in ArgKwargValues :
        Cardinality({k \in DOMAIN kw : kw[k] # Absent}) <= MaxGiven}
    \cup {[NoKwargs EXCEPT !.distance = Str(s)] : s \in DistanceTexts}

\* self._validate_shoot_args(**kw)
ValidateShootArgsCall ==
    /\ pc = "idle"
    /\ \E kw \in ArgKwargs :
       /\ op' = [name |-> "_validate_shoot_args", kw |-> kw]
       /\ exc' = ValidateShootArgs(kw)
       /\ rval' = None
    /\ devlog' = <<>>
    /\ pc' = "done"
    /\ UNCHANGED <<envVars, modeVars, shootVars>>

\* self._parse_shoot_args(**kw): the options dictionary is returned
ParseShootArgsCall ==
    /\ pc = "idle"
    /\ \E kw \in ArgKwargs :
       LET p == ParseShootArgs(kw) IN
       /\ op' = [name |-> "_parse_shoot_args", kw |-> kw]
       /\ exc' = p.exc
       /\ rval' = IF p.exc.kind = "none" THEN [t |-> "dict", d |-> p.val] ELSE None
    /\ devlog' = <<>>
    /\ pc' = "done"
    /\ UNCHANGED <<envVars, modeVars, shootVars>>

----------------------------------------------------------------------------
(* chdkptp/lua.py: parse_table *)

\* most keys of one table
MaxKeys == 2

\* keys as dict(table) presents them: Lua numbers arrive as Python numbers,
\* Lua strings as Python strings
LuaKeys ==
    {Num(1), Num(2), Num(5), Str(<<"1">>), Str(<<"2">>), Str(<<"5">>), Str(<<"a">>)}

\* a table as dict(table) iterates over it: its keys, each once, and the
\* value of each
LuaTable(ks, vs) == [t |-> "table", keys |-> ks, vals |-> vs]

\* no key occurs twice
Distinct(ks) == \A a, b \in DOMAIN ks : ks[a] = ks[b] => a = b

\* tables that occur as values of other tables
InnerTables ==
    {LuaTable(ks, [k \in DOMAIN ks |-> Str("v")]) :
        ks \in {<<>>, <<Num(1)>>, <<Str(<<"a">>)>>, <<Str(<<"1">>), Str(<<"5">>)>>,
                <<Str(<<"1">>), Str(<<"2">>)>>}}

\* values of a table: a string, or a table
LuaValues == {Str("v")} \cup InnerTables

\* str.isdigit()
IsDigit(s) == Len(s) > 0 /\ \A k \in DOMAIN s : s[k] \in Digits

\* the least element of a set of numbers
Least(S) == CHOOSE x \in S : \A y \in S : x <= y

\* parse_table(table): nested tables are parsed first, in the order of
\* iteration; then all(x.isdigit() for x in keys) decides between
\* tuple(out.values()) and the dict, and fails on a key that is no string
RECURSIVE ParseTable(_)
ParseTable(table) ==
    LET n == Len(table.keys)
        sub == [k \in 1..n |->
                   IF table.vals[k].t = "table" THEN ParseTable(table.vals[k])
                   ELSE Ret(table.vals[k])]
        failed == {k \in 1..n : sub[k].exc.kind # "none"}
        vals == [k \in 1..n |-> sub[k].val]
        stop == {k \in 1..n :
                    ~(table.keys[k].t = "str" /\ IsDigit(table.keys[k].s))}
    IN  IF failed # {} THEN Exc(sub[Least(failed)].exc)
        ELSE IF stop = {} THEN Ret([t |-> "tuple", items |-> vals])
        ELSE IF table.keys[Least(stop)].t # "str" THEN Exc(Raise("AttributeError"))
        ELSE Ret([t |-> "dict", keys |-> table.keys, vals |-> vals])

ParseTableCall ==
    /\ pc = "idle"
    /\ \E n \in 0..MaxKeys :
       \E ks \in [1..n -> LuaKeys], vs \in [1..n -> LuaValues] :
       LET r == ParseTable(LuaTable(ks, vs)) IN
       /\ Distinct(ks)
       /\ op' = [name |-> "parse_table", table |-> LuaTable(ks, vs)]
       /\ exc' = r.exc
       /\ rval' = r.val
    /\ devlog' = <<>>
    /\ pc' = "done"
    /\ UNCHANGED <<envVars, modeVars, shootVars>>

----------------------------------------------------------------------------

Init ==
    /\ pc = "idle"
    /\ op = [name |-> "none"]
    /\ devlog = <<>>
    /\ exc = NoExc
    /\ rval = None
    /\ devMode \in Modes
    /\ pending = "none"
    /\ i = 0
    /\ applyAt = -1
    /\ hist = <<>>
    /\ running = FALSE
    /\ imgData = <<>>
    /\ dngHdr = <<>>
    /\ capFailed = FALSE
    /\ waitExpired = FALSE
    /\ onCard = FALSE
    /\ tmpFile = "none"
    /\ msgbuf = <<>>
    /\ arrived = 0
    /\ seen = <<>>
    /\ mark = 0

\* the caller takes the result of the finished call (or catches what it
\* raised) and is ready for the next call
Collect ==
    /\ pc = "done"
    /\ pc' = "idle"
    /\ op' = [name |-> "none"]
    /\ devlog' = <<>>
    /\ exc' = NoExc
    /\ rval' = None
    /\ i' = 0
    /\ applyAt' = -1
    /\ imgData' = <<>>
    /\ dngHdr' = <<>>
    /\ capFailed' = FALSE
    /\ waitExpired' = FALSE
    /\ tmpFile' = "none"
    /\ UNCHANGED <<devMode, pending, hist, running, onCard, msgbuf, arrived,
                   seen, mark>>

NextMode ==
    \/ \E m \in {"record", "play", "video"} : SwitchModeCall(m)
    \/ PollSleep
    \/ PollExit
    \/ DeviceSwitch
    \/ Collect

SpecMode == Init /\ [][NextMode]_vars

NextLua ==
    \/ /\ pc = "idle"
       /\ \E c \in Sources, w \in BOOLEAN, r \in BOOLEAN, o \in ScriptOutcomes :
             LuaExecuteCall(c, w, r, o)
    \/ \E rv \in CallOutcomes : IsConnectedCall(rv)
    \/ Collect

SpecLua == Init /\ [][NextLua]_vars

NextShoot ==
    \/ ShootNonStreamingCall
    \/ ShootStreamingCall
    \/ JpgChunk
    \/ DngHeader
    \/ \E how \in {"ok", "nochunk", "nodng"} : DngRaw(how)
    \/ \E failed \in BOOLEAN : CaptureEnd(failed)
    \/ ScriptEnd
    \/ WaitStatus
    \/ \E o \in ShootOutcomes : StreamFinish(o)
    \/ Collect

SpecShoot == Init /\ [][NextShoot]_vars

\* the blocking calls of _shoot_streaming return: capture_get_data_pcall
\* gives up on missing chunks, wait_status_pcall has its timeout, and
\* lua_execute returns or raises; nothing is assumed about the camera
LiveShoot ==
    /\ SpecShoot
    /\ WF_vars(\E failed \in BOOLEAN : CaptureEnd(failed))
    /\ WF_vars(WaitStatus)
    /\ WF_vars(\E o \in ShootOutcomes : StreamFinish(o))

NextFiles ==
    \/ /\ pc = "idle"
       /\ \E l \in LocalPaths, q \in Paths, k \in BOOLEAN,
             st \in {"dir", "file", "thrown"}, o \in FileOutcomes :
             UploadFileCall(l, q, k, st, o)
    \/ /\ pc = "idle"
       /\ \E q \in Paths, o \in FileOutcomes : BatchUploadCall(q, o)
    \/ /\ pc = "idle"
       /\ \E q \in Paths, h \in BOOLEAN, o \in FileOutcomes :
             DownloadFileCall(q, h, o)
    \/ /\ pc = "idle"
       /\ \E qs \in PathLists, o \in FileOutcomes : BatchDownloadCall(qs, o)
    \/ /\ pc = "idle"
       /\ \E qs \in PathLists \cup {<<TestFile>>}, o \in FileOutcomes :
             DeleteFilesCall(qs, o)
    \/ /\ pc = "idle"
       /\ \E q \in Paths \cup {DcimPath}, d \in BOOLEAN, n \in Listings,
             o \in FileOutcomes :
             ListFilesCall(q, d, n, o)
    \/ /\ pc = "idle"
       /\ \E q \in Paths, o \in FileOutcomes : MkdirCall(q, o)
    \/ Collect

SpecFiles == Init /\ [][NextFiles]_vars

NextPath ==
    \/ ToCamerapathCall
    \/ Collect

SpecPath == Init /\ [][NextPath]_vars

NextMsg ==
    \/ MsgArrive
    \/ GetMessagesCall
    \/ ReadMsg
    \/ SendMessageCall
    \/ \E out \in {"ret0", "err_ptp"} : LuaExecuteCall(<<"x">>, FALSE, TRUE, out)
    \/ ScriptEnd
    \/ KillScriptsCall
    \/ KillWait
    \/ RebootCall
    \/ Collect

SpecMsg == Init /\ [][NextMsg]_vars

NextArgs ==
    \/ ValidateShootArgsCall
    \/ ParseShootArgsCall
    \/ Collect

SpecArgs == Init /\ [][NextArgs]_vars

NextTable ==
    \/ ParseTableCall
    \/ Collect

SpecTable == Init /\ [][NextTable]_vars

----------------------------------------------------------------------------
(* Claims about switch_mode, checked under SpecMode *)

SwitchDone == pc = "done" /\ op.name = "switch_mode" /\ op.mode \in Modes

\* the call in op went as far as starting the remote switch script
SwitchIssued == Len(devlog) = 2

NoSwitchWhenInMode ==
    \A k \in DOMAIN hist :
        (hist[k].mode \in Modes /\ hist[k].atCall = hist[k].mode)
            => hist[k].issued = 0

Consecutive ==
    /\ Len(hist) = 2
    /\ hist[1].mode \in Modes
    /\ hist[2].mode = hist[1].mode
    /\ hist[2].atCall = hist[1].atEnd

C3_PollBound ==
    /\ pc = "poll" => i <= 300
    /\ (SwitchDone /\ SwitchIssued) =>
          /\ applyAt = -1 => i = 300
          /\ applyAt # -1 => i = applyAt

C3_Witness == SwitchDone /\ SwitchIssued /\ applyAt = -1 /\ i = 300

\* C4 as stated: when the poll ceiling is reached without the target mode
\* being observed, switch_mode fails with a PTPError and no other error.
C4_AsStated ==
    (SwitchDone /\ SwitchIssued /\ devMode # op.mode) => exc.kind = "PTPError"

\* C5: whenever switch_mode(m) has returned normally the camera is in mode m.
C5_ModeAfterSwitch ==
    (SwitchDone /\ exc.kind = "none") => devMode = op.mode

C5_Witness ==
    /\ SwitchDone /\ exc.kind = "none" /\ SwitchIssued
    /\ op.atCall = "play" /\ devMode = "record"

----------------------------------------------------------------------------
(* Claims about lua_execute and LuaContext, checked under SpecLua *)

LuaDone == pc = "done" /\ op.name = "lua_execute"

\* do_return is set and the text "return" occurs nowhere in the source
NoReturn == op.do_return /\ ~Contains(op.code, RETURN)

\* the source has a newline, or a ';' before its last character
MultiStatement ==
    \E k \in 1..Len(op.code) :
        op.code[k] = "\n" \/ (op.code[k] = ";" /\ k < Len(op.code))

\* C6 as stated: lua_execute with do_return set and a source without a
\* return raises a precondition error before anything is sent to the device,
\* for every such source and for wait true and false.
C6_AsStated ==
    (LuaDone /\ NoReturn) => (exc.kind = "ValueError" /\ devlog = <<>>)

\* C6 amended: with wait and do_return set and a source without "return",
\* lua_execute raises ValueError before anything is sent when the source has
\* a newline or a ';' before its last character; a single statement is sent
\* with "return " put in front of it; with wait false the source is sent as
\* it is and its missing return is no error.
C6_Precondition ==
    LuaDone =>
        /\ (op.wait /\ NoReturn /\ MultiStatement)
              => (exc.kind = "ValueError" /\ devlog = <<>>)
        /\ (op.wait /\ NoReturn /\ ~MultiStatement)
              => /\ devlog = <<Dev("execwait", RETURN \o <<" ">> \o op.code)>>
                 /\ exc.kind # "ValueError"
        /\ ~op.wait
              => (devlog = <<Dev("exec", op.code)>> /\ exc.kind # "ValueError")

C6_Witness ==
    /\ LuaDone /\ op.wait /\ NoReturn /\ MultiStatement
    /\ exc.kind = "ValueError" /\ devlog = <<>>

\* the finished call was a blocking remote call and the device raised an error
RemoteFailure ==
    /\ pc = "done"
    /\ \/ op.name = "lua_execute" /\ op.wait /\ devlog # <<>> /\ Thrown(op.out)
       \/ op.name = "is_connected" /\ op.out.tuple /\ ~Truthy(op.out.items[1])

\* the error value the device raised
RemoteError ==
    IF op.name = "lua_execute" THEN ErrVal(op.out) ELSE op.out.items[2]

\* C7 as stated: when a blocking remote call fails on the device the caller
\* gets a PTPError with the PTP status code and the remote traceback if the
\* error record has etype 'ptp', and a LuaError otherwise; nothing else.
C7_AsStated ==
    RemoteFailure =>
        IF RemoteError.t = "tab" /\ RemoteError.etype = "ptp"
        THEN /\ exc.kind = "PTPError"
             /\ exc.ptp_code = RemoteError.ptp_rc
             /\ exc.traceback = RemoteError.traceback
        ELSE exc.kind = "LuaError"

----------------------------------------------------------------------------
(* Claims about the file operations, checked under SpecFiles *)

FileOps ==
    {"upload_file", "batch_upload", "download_file", "batch_download",
     "delete_files", "list_files", "mkdir"}

\* the path begins with 'A/' or 'a/'
Rooted(path) ==
    Len(path) >= 2 /\ path[1] \in {"A", "a"} /\ path[2] = "/"

\* C10 as stated: for every file operation and every remote path the caller
\* supplies, the path handed to the device begins with the storage root 'A/'
\* (in either case).
C10_AsStated ==
    (pc = "done" /\ op.name \in FileOps) =>
        \A k \in DOMAIN devlog : Rooted(devlog[k].arg)

----------------------------------------------------------------------------
(* Claims about shoot, checked under SpecShoot *)

\* a shoot call is under way or has finished
ShootCalled == op.name = "shoot"

ShootDone == pc = "done" /\ op.name = "shoot"

\* C1 as stated: a shoot call whose arguments break a validation rule is
\* rejected with an error and nothing is sent to the device: no remote script
\* is started, no capture is triggered.
C1_AsStated ==
    (ShootCalled /\ ValidateShootArgs(op.kw) # NoExc) =>
        /\ exc.kind # "none"
        /\ devlog = <<>>

\* C8 as stated: in a streaming capture, after a failed chunk retrieval or an
\* expired status wait, shoot raises an error; it never returns image bytes
\* normally.
C8_AsStated ==
    (ShootDone /\ (capFailed \/ waitExpired)) => exc.kind # "none"

\* the bytes of chunk n of the given kind
Seg(kind, n) == Chunk(kind, n).data

\* C9 as stated: a streaming DNG capture that delivered one header chunk and
\* then two raw chunks returns header, thumbnail1, raw1, thumbnail2, raw2 in
\* that order, the header once.
C9_AsStated ==
    (ShootDone /\ IsDng /\ exc.kind = "none" /\ ~capFailed /\ RawCount = 2) =>
        rval = Bytes(dngHdr \o Seg("thumb", 1) \o Seg("raw", 1)
                            \o Seg("thumb", 2) \o Seg("raw", 2))

----------------------------------------------------------------------------
(* Claims about to_camerapath, checked under SpecPath *)

PathDone == pc = "done" /\ op.name = "to_camerapath"

\* C11: normalising a normalised path changes nothing; a path that already
\* begins with 'A/' or 'a/' is returned as it is; and 'foo.jpg' and
\* 'A/foo.jpg' normalise to the same path.
C11_Idempotent ==
    PathDone =>
        /\ ToCamerapath(rval.s) = rval.s
        /\ (Rooted(op.path) => rval.s = op.path)
        /\ (op.path = FooJpg => rval.s = ToCamerapath(<<"A", "/">> \o FooJpg))

C11_Witness ==
    PathDone /\ op.path = FooJpg /\ rval.s = <<"A", "/">> \o FooJpg

----------------------------------------------------------------------------
(* Claims about the card's content, checked under SpecFiles *)

\* list_files() with its default arguments has returned a listing
ListedDefault ==
    /\ pc = "done" /\ op.name = "list_files"
    /\ op.remote = <<DcimPath>> /\ ~op.detailed
    /\ exc.kind = "none"

\* the listing in rval names the test file, compared in lower case
ListsTestFile == \E k \in DOMAIN rval.items : SameFile(rval.items[k], TestFile)

\* C12 as stated: once upload_file(local, 'A/') has succeeded, list_files()
\* with default arguments contains 'a/<basename>' (in lower case); once
\* delete_files('A/<basename>') has succeeded it no longer does.
C12_AsStated == ListedDefault => (onCard <=> ListsTestFile)

----------------------------------------------------------------------------
(* Claims about the message buffer, checked under SpecMsg *)

MsgCalled == op.name = "get_messages" /\ pc \in {"drain", "done"}

MsgDone == op.name = "get_messages" /\ pc = "done"

\* arrival numbers of the messages in a sequence
Arrivals(msgs) == [k \in DOMAIN msgs |-> msgs[k].value.n]

----------------------------------------------------------------------------
(* Claims about send_message, kill_scripts and reboot, checked under SpecMsg *)

SendDone == pc = "done" /\ op.name = "send_message"

\* C14 as stated: send_message hands the script id to the device whenever the
\* caller supplies one, id 0 included, and leaves it out only when the caller
\* supplies none.
C14_AsStated ==
    SendDone =>
        devlog[1].arg = IF op.script_id = None THEN <<"msg">>
                        ELSE <<"msg", op.script_id>>

KillDone == pc = "done" /\ op.name = "kill_scripts"

\* C15: kill_scripts first issues the forced termination, with the flush
\* setting given for the camera's and for the host's messages, and then waits
\* for the status; when it returns normally it has done both, in that order,
\* and the device has reported that no script is running.
C15_KillThenWait ==
    /\ (op.name = "kill_scripts" /\ pc \in {"killwait", "done"}) =>
          /\ devlog[1].fn = "exec"
          /\ devlog[1].arg.clobber
          /\ devlog[1].arg.flush_cam_msgs = op.flush
          /\ devlog[1].arg.flush_host_msgs = op.flush
    /\ (KillDone /\ exc.kind = "none") =>
          /\ Len(devlog) = 2
          /\ devlog[2].fn = "wait_status"
          /\ ~running

\* kill_scripts(flush=True) has returned normally after a script had been
\* started and messages were dropped
C15_Witness ==
    /\ KillDone /\ exc.kind = "none" /\ op.flush
    /\ arrived > 0 /\ msgbuf = <<>> /\ mark = arrived /\ Len(seen) < arrived

RebootDone == pc = "done" /\ op.name = "reboot"

\* C16 as stated: reboot issues the remote reboot instruction and, if that
\* went well, reconnects afterwards; a call that returns normally has done
\* both in that order.
C16_AsStated ==
    RebootDone =>
        /\ Len(devlog) >= 1
        /\ devlog[1].fn = "execwait"
        /\ exc.kind = "none" => (Len(devlog) = 2 /\ devlog[2].fn = "reconnect")

----------------------------------------------------------------------------
(* Claims about the non-streaming capture, checked under SpecShoot *)

\* shoot(stream=False) with wait left true has got past its argument checks
NsCalled ==
    /\ ShootDone /\ ~IsStream(op.kw)
    /\ Truthy(Get(op.kw, "wait", Bool(TRUE)))
    /\ ShootPlan[op.kw].entry.kind = "none"

\* '<dir>/IMG_<exp as 4 digits>.JPG' for the directory and count reported
ReportedPath ==
    DcimDir \o <<"/", "I", "M", "G", "_">>
        \o <<DigitChar((op.env.exp \div 1000) % 10), DigitChar((op.env.exp \div 100) % 10),
             DigitChar((op.env.exp \div 10) % 10), DigitChar(op.env.exp % 10)>>
        \o <<".", "J", "P", "G">>

Issued(fn) == {k \in DOMAIN devlog : devlog[k].fn = fn}

\* C17: a non-streaming capture with wait=true downloads and deletes the file
\* '<dir>/IMG_<exp, 4 digits>.JPG' the device reported; the deletion is issued
\* after the download, and not at all if the download failed; the call
\* returns the file's bytes if download_after is set and None otherwise.
C17_NonStreaming ==
    NsCalled =>
        LET download == Truthy(Get(op.kw, "download_after", Bool(FALSE)))
            remove == Truthy(Get(op.kw, "remove_after", Bool(FALSE)))
        IN  /\ \A k \in Issued("download") \cup Issued("mdelete") :
                  devlog[k].arg = ReportedPath
            /\ \A j \in Issued("download"), k \in Issued("mdelete") : j < k
            /\ (download /\ Issued("mdelete") # {}) =>
                  (Issued("download") # {} /\ op.env.dl = "ok")
            /\ exc.kind = "none" =>
                  /\ download <=> Issued("download") # {}
                  /\ remove <=> Issued("mdelete") # {}
                  /\ rval = IF download THEN Bytes(<<"file">>) ELSE None

\* a capture with count 7 has been downloaded and then deleted
C17_Witness ==
    /\ NsCalled /\ exc.kind = "none" /\ op.env.exp = 7
    /\ Truthy(Get(op.kw, "download_after", Bool(FALSE)))
    /\ Truthy(Get(op.kw, "remove_after", Bool(FALSE)))
    /\ Len(devlog) = 3

----------------------------------------------------------------------------
(* Claims about upload_file and download_file, checked under SpecFiles *)

UploadDone == pc = "done" /\ op.name = "upload_file"

\* the remote path of the call in op, normalised
NormRemote == ToCamerapath(op.remote[1])

TrailingSlash(p) == p # <<>> /\ p[Len(p)] = "/"

\* C18 as stated: without skip_checks, whenever the remote path is a
\* directory on the device the file is uploaded to that directory joined
\* with the local basename, after a stat call; with skip_checks no stat call
\* is made and the file is uploaded to the path itself.
C18_AsStated ==
    (UploadDone /\ ~op.local.isdir /\ exc.kind = "none") =>
        IF op.skip_checks
        THEN devlog = <<Dev("upload", NormRemote)>>
        ELSE op.stat = "dir" =>
                devlog = <<Dev("stat", NormRemote),
                           Dev("upload", OsPathJoin(NormRemote, op.local.base))>>

\* C18 amended: without skip_checks and with a normalised remote path ending
\* in '/', a stat call is made and, if it finds a directory, the file is
\* uploaded to the path followed by the local basename, otherwise nothing is
\* uploaded; with skip_checks, or a path not ending in '/', there is no stat
\* call and the file is uploaded to the normalised path itself.
C18_UploadTarget ==
    (UploadDone /\ ~op.local.isdir) =>
        IF ~op.skip_checks /\ TrailingSlash(NormRemote)
        THEN /\ devlog[1] = Dev("stat", NormRemote)
             /\ IF op.stat = "dir"
                THEN devlog = <<Dev("stat", NormRemote),
                                Dev("upload", NormRemote \o op.local.base)>>
                ELSE Len(devlog) = 1 /\ exc.kind # "none"
        ELSE devlog = <<Dev("upload", NormRemote)>>

C18_Witness ==
    /\ UploadDone /\ ~op.local.isdir /\ ~op.skip_checks /\ op.stat = "dir"
    /\ op.remote = <<<<"f", "/">>>> /\ exc.kind = "none"
    /\ devlog[2].arg = <<"A", "/", "f", "/", "t">>

\* C19: upload_file with a local path that is a directory raises ValueError,
\* whatever the remote path and skip_checks, and hands nothing to the device.
C19_LocalDirectory ==
    (UploadDone /\ op.local.isdir) => (exc.kind = "ValueError" /\ devlog = <<>>)

C19_Witness ==
    /\ UploadDone /\ op.local.isdir /\ op.skip_checks /\ op.remote = <<<<"f">>>>
    /\ exc.kind = "ValueError"

DownloadDone == pc = "done" /\ op.name = "download_file"

\* C20 as stated: download_file returns the file's bytes exactly when no
\* local path was given, and None otherwise; and when none was given the
\* temporary file is gone once the call has finished, normally or not.
C20_AsStated ==
    DownloadDone =>
        /\ exc.kind = "none" =>
              rval = IF op.hasLocal THEN None ELSE Bytes(<<"file">>)
        /\ ~op.hasLocal => tmpFile # "exists"

----------------------------------------------------------------------------
(* Claims about _validate_shoot_args and _parse_shoot_args, checked under
   SpecArgs *)

ArgsValidated == pc = "done" /\ op.name = "_validate_shoot_args"

ArgsParsed == pc = "done" /\ op.name = "_parse_shoot_args"

\* the keyword argument k of the call in op is given and is not None
IsSet(k) == op.kw[k].t \notin {"absent", "none"}

\* how many of real_iso, market_iso and isomode are set
IsoCount ==
    (IF IsSet("real_iso") THEN 1 ELSE 0) + (IF IsSet("market_iso") THEN 1 ELSE 0)
        + (IF IsSet("isomode") THEN 1 ELSE 0)

\* the arguments of the call in op are valid apart from the ISO rule: the
\* call without its three ISO arguments is accepted, and those are numbers
OtherwiseValid ==
    /\ ValidateShootArgs([op.kw EXCEPT !.real_iso = Absent, !.market_iso = Absent,
                                       !.isomode = Absent]) = NoExc
    /\ \A k \in {"real_iso", "market_iso", "isomode"} : IsSet(k) => op.kw[k].t = "num"

\* C21: _validate_shoot_args, given otherwise valid arguments, raises if and
\* only if more than one of real_iso, market_iso and isomode is set: zero or
\* one of them is accepted, two or three are rejected with ValueError.
C21_IsoExclusive ==
    (ArgsValidated /\ OtherwiseValid) =>
        /\ IsoCount <= 1 => exc = NoExc
        /\ IsoCount > 1 => exc.kind = "ValueError"

\* real_iso together with isomode, nothing else wrong, has been rejected
C21_Witness ==
    /\ ArgsValidated /\ OtherwiseValid
    /\ IsSet("real_iso") /\ IsSet("isomode") /\ ~IsSet("market_iso")
    /\ exc.kind = "ValueError"

\* the keyword argument k of the call in op, or default d when it is left out
Arg(k, d) == IF op.kw[k].t = "absent" THEN d ELSE op.kw[k]

\* C22 as stated: with wait=false, validation raises whenever streaming,
\* download_after or remove_after is in effect for the call, streaming being
\* in effect when stream=true is passed and when stream is left at its
\* default.
C22_AsStated ==
    (/\ ArgsValidated
     /\ ~Truthy(Arg("wait", Bool(TRUE)))
     /\ \/ Truthy(Arg("stream", Bool(TRUE)))
        \/ Truthy(Arg("download_after", Bool(FALSE)))
        \/ Truthy(Arg("remove_after", Bool(FALSE))))
    => exc.kind # "none"

\* the options dictionary the call in op returned
Options == rval.d

\* C23 as stated: _parse_shoot_args puts nd=1 into the options when
\* nd_filter is true, nd=2 when nd_filter is false, and no nd key when
\* nd_filter is unset.
C23_AsStated ==
    ArgsParsed /\ exc = NoExc =>
        /\ Arg("nd_filter", None) = Bool(TRUE) =>
              "nd" \in DOMAIN Options /\ Options["nd"] = Num(1)
        /\ Arg("nd_filter", None) = Bool(FALSE) =>
              "nd" \in DOMAIN Options /\ Options["nd"] = Num(2)
        /\ Arg("nd_filter", None) = None => "nd" \notin DOMAIN Options

\* C24: whenever _parse_shoot_args returns, the options contain exactly one
\* of fformat and info; when streaming (stream true or left out), fformat is
\* 6 if dng is set, else 4 if raw is set, else 1; when not streaming, info is
\* true and fformat is absent; and dng set implies that raw=1 is present.
C24_CaptureFormat ==
    ArgsParsed /\ exc = NoExc =>
        LET dng == Truthy(Arg("dng", Bool(FALSE)))
            raw == Truthy(Arg("raw", Bool(FALSE)))
            has(k) == k \in DOMAIN Options
        IN  /\ has("fformat") # has("info")
            /\ Truthy(Arg("stream", Bool(TRUE))) =>
                  /\ has("fformat")
                  /\ dng => Options["fformat"] = Num(6)
                  /\ ~dng /\ raw => Options["fformat"] = Num(4)
                  /\ ~dng /\ ~raw => Options["fformat"] = Num(1)
            /\ ~Truthy(Arg("stream", Bool(TRUE))) =>
                  has("info") /\ Options["info"] = Bool(TRUE) /\ ~has("fformat")
            /\ dng => has("raw") /\ Options["raw"] = Num(1)

\* a streaming call with dng and raw both set has been given fformat 6, and
\* raw=1 with it
C24_Witness ==
    /\ ArgsParsed /\ exc = NoExc
    /\ Arg("dng", None) = Bool(TRUE) /\ Arg("raw", None) = Bool(TRUE)
    /\ Arg("stream", Bool(TRUE)) = Bool(TRUE)
    /\ Options["fformat"] = Num(6) /\ Options["raw"] = Num(1)

\* a call that does not stream has been given info=true
C24_WitnessInfo ==
    /\ ArgsParsed /\ exc = NoExc
    /\ Arg("stream", Bool(TRUE)) = Bool(FALSE)
    /\ "info" \in DOMAIN Options

\* the distance text of the call in op
DistanceText == op.kw["distance"].s

DistanceGiven == op.kw["distance"].t = "str"

\* v is <number>: digits, or digits, a point and digits
IsNumberText(v) ==
    LET p == DigitRun(v, 1) IN
    /\ p >= 1
    /\ \/ p = Len(v)
       \/ /\ p + 2 <= Len(v)
          /\ v[p + 1] = "."
          /\ DigitRun(v, p + 2) = Len(v) - p - 1

\* s is exactly <number><unit> with that unit
HasForm(s, unit) ==
    /\ Len(s) > Len(unit)
    /\ SubSeq(s, Len(s) - Len(unit) + 1, Len(s)) = unit
    /\ IsNumberText(SubSeq(s, 1, Len(s) - Len(unit)))

\* the five units with their factors, in tenths of a millimetre
UnitFactors ==
    {<<(<<"m", "m">>), 10>>, <<(<<"c", "m">>), 1000>>, <<(<<"m">>), 10000>>,
     <<(<<"f", "t">>), 3048>>, <<(<<"i", "n">>), 254>>}

WellFormed(s) == \E uf \in UnitFactors : HasForm(s, uf[1])

\* sd is an integer nearest to number times factor, for <number><unit> = s
IsNearest(sd, s) ==
    \E uf \in UnitFactors :
       /\ HasForm(s, uf[1])
       /\ LET f == Float(SubSeq(s, 1, Len(s) - Len(uf[1])))
              diff == 10 * f.den * sd - uf[2] * f.num
          IN  2 * (IF diff < 0 THEN -diff ELSE diff) <= 10 * f.den

\* C25 as stated: for every distance string that validation accepts, parsing
\* succeeds and sd is number times factor[unit] rounded to the nearest
\* integer; strings that are not exactly of the form <number><unit> are
\* rejected by validation.
C25_AsStated ==
    /\ (ArgsParsed /\ DistanceGiven /\ ValidateShootArgs(op.kw) = NoExc) =>
          /\ exc = NoExc
          /\ Options["sd"].t = "num"
          /\ IsNearest(Options["sd"].n, DistanceText)
    /\ (ArgsValidated /\ DistanceGiven /\ ~WellFormed(DistanceText)) =>
          exc.kind # "none"

\* the distance text is the only argument of the call in op
DistanceAlone == DistanceGiven /\ op.kw = [NoKwargs EXCEPT !.distance = op.kw["distance"]]

\* the part of C25 that holds: a text that is exactly <number><unit> is
\* accepted and converted to the nearest millimetre
C25_WellFormedConverted ==
    /\ (ArgsParsed /\ DistanceAlone /\ WellFormed(DistanceText)) =>
          /\ exc = NoExc
          /\ IsNearest(Options["sd"].n, DistanceText)
    /\ (ArgsValidated /\ DistanceAlone /\ WellFormed(DistanceText)) =>
          exc = NoExc

----------------------------------------------------------------------------
(* Claims about streaming capture, checked under SpecShoot and LiveShoot *)

\* a streaming shoot call is waiting for chunks, for the script to end, or
\* is about to clean up
Streaming == op.name = "shoot" /\ pc \in {"capture", "wait", "cleanup"}

RECURSIVE JpgBytes(_)
JpgBytes(n) ==
    IF n = 0 THEN <<>> ELSE JpgBytes(n - 1) \o <<"jpg", DigitChar(n)>>

\* a streaming JPEG call has returned
JpgReturned == ShootDone /\ IsStream(op.kw) /\ ~IsDng /\ exc = NoExc

\* C27: the bytes a streaming JPEG capture returns are the data of the
\* chunks received for that capture, joined in arrival order, each chunk
\* once and nothing else.
C27_JpegAssembly ==
    JpgReturned => rval = Bytes(JpgBytes(Len(imgData)))

\* two chunks arrived and the call returned the first followed by the second
C27_Witness ==
    /\ JpgReturned
    /\ Len(imgData) = 2
    /\ rval = Bytes(<<"jpg", "1", "jpg", "2">>)

----------------------------------------------------------------------------
(* Claims about parse_table, checked under SpecTable *)

TableDone == pc = "done" /\ op.name = "parse_table"

\* the integer a key stands for, -1 if none
KeyInt(k) ==
    IF k.t = "num" THEN k.n
    ELSE IF k.t = "str" /\ IsDigit(k.s) THEN DigitsVal(k.s)
    ELSE -1

\* the keys are the integers 0..n-1 or 1..n
IsRun(keys) ==
    LET n == Len(keys)
        ints == {KeyInt(keys[k]) : k \in 1..n}
    IN  ints = 0..(n - 1) \/ ints = 1..n

\* r presents the value v by the rule of the claim: a table whose keys form
\* a run as a sequence, any other table as a mapping, the values of a table
\* by the same rule
RECURSIVE Presents(_, _)
Presents(r, v) ==
    IF v.t # "table" THEN r = v
    ELSE /\ r.t = IF IsRun(v.keys) THEN "tuple" ELSE "dict"
         /\ LET items == IF r.t = "tuple" THEN r.items ELSE r.vals IN
            /\ Len(items) = Len(v.keys)
            /\ \A k \in 1..Len(items) : Presents(items[k], v.vals[k])

\* C28 as stated: parse_table presents a decoded table as an ordered
\* sequence if and only if its keys form a contiguous integer run starting
\* at 0 or 1, and as a mapping otherwise (in particular for the keys 1 and
\* 5); nested tables are decoded by the same rule.
C28_AsStated ==
    TableDone => exc = NoExc /\ Presents(rval, op.table)

----------------------------------------------------------------------------
(* Claims about scripts started without waiting, checked under SpecShoot *)

\* the step of _shoot_streaming that starts init_usb_capture(0) and waits
\* for it
CleanupStarts == pc = "cleanup" /\ pc' = "done"

\* C29 as stated: in a streaming capture the awaited cleanup script
\* init_usb_capture(0) is started only after the rs_shoot script, started
\* without waiting, has been seen to be no longer running.
C29_AsStated == [][CleanupStarts => ~waitExpired /\ ~running]_vars

\* C30 as stated: a shoot call with wait=false never blocks on the capture:
\* it raises during validation or starts the remote shoot script without
\* waiting and returns None; it never enters the chunk retrieval of a
\* streaming capture, never waits on device status and never starts a script
\* it waits for.
C30_AsStated ==
    (ShootCalled /\ ~Truthy(Arg("wait", Bool(TRUE)))) =>
        /\ pc \notin {"capture", "wait", "cleanup"}
        /\ \A k \in DOMAIN devlog : devlog[k].fn # "execwait"
        /\ pc = "done" /\ exc = NoExc => rval = None

====
